---- MODULE Spec2Model ----
(***************************************************************************)
(* A model of the drama-buddy rehearsal program.                           *)
(*                                                                         *)
(*   - the reading orchestrator of src/App.tsx (handleStart, handleStop,   *)
(*     resetReading, handleNextTurn, readNext, recognition.onresult),      *)
(*     specification Spec, and a reading without stop, reset or failure    *)
(*     under fairness, specification LiveSpec;                             *)
(*   - the synthesis cache of src/services/tts.ts and of the Gemini        *)
(*     service src/unnamed/part_002 (getAudioBuffer, clearCache),          *)
(*     specification CacheSpec;                                            *)
(*   - the turn matching of recognition.onresult in src/App.tsx,           *)
(*     specification MatcherSpec;                                          *)
(*   - parseScript of src/utils/parser.ts under the upload handler of      *)
(*     src/App.tsx, specification ParserSpec, and its scan line by line,   *)
(*     specification ScanSpec;                                             *)
(*   - the provider service of src/services/tts.ts over a provider that    *)
(*     plays directly, specification DirectSpec;                           *)
(*   - the views of src/App.tsx (upload, configuration, reading): the      *)
(*     configuration on its own, specification ConfigSpec, and the         *)
(*     orchestrator with the navigation around it, specification AppSpec.  *)
(*                                                                         *)
(* JavaScript runs one task at a time, so an action is the code that runs  *)
(* between two suspension points.  The suspension points are the awaits    *)
(* on external completions: AudioContext.resume(), the synthesis backend,  *)
(* the end of playback, the 150 ms timer, and React's deferred render of   *)
(* state set outside an event handler.                                     *)
(***************************************************************************)
EXTENDS Integers, Sequences, FiniteSets, TLC

(***************************************************************************)
(* Bounds of the model.                                                    *)
(***************************************************************************)
\* longest script
MaxLines == 2
\* reading continuations (speak calls in flight, inter-line timers, handlers
\* waiting for the audio context) that may exist at once
MaxChains == 2
\* getAudioBuffer invocations in one behaviour of the cache
MaxRequests == 3
\* longest expected line and longest transcript, in characters
MaxChars == 3
\* physical lines of an uploaded file
MaxPhysLines == 3
\* physical lines of a text whose scan is followed line by line
MaxScanLines == 4

(***************************************************************************)
(* Program constants.                                                      *)
(***************************************************************************)
\* useState<number>(-1): reading has not started
NotStarted == -1
\* ghost value: "no line"
NoLine == -1

RoleNames == {"Alice", "ALICE", "Bob"}

\* useState<ScriptData | null>(null): no script
NoScript == << >>
\* useState<string>(''): no role chosen
NoRole == ""
\* useState<RoleAssignment>({}): no role has a voice
NoAssignments == [r \in {} |-> ""]

VOICES == << "Kore", "Puck", "Charon", "Fenrir", "Zephyr" >>

\* role.trim().toLowerCase(); role names come out of parseScript trimmed
normRole(r) ==
  CASE r = "Alice" -> "alice"
    [] r = "ALICE" -> "alice"
    [] r = "Bob"   -> "bob"
    [] OTHER       -> r

LineIdx == 0 .. (MaxLines - 1)
TimerIdx == 0 .. MaxLines

VARIABLES
  \* ---- orchestrator (src/App.tsx) ----
  script,                \* the roles of script.lines, in order
  userRole,
  currentLineIndex,      \* React state, as last set
  isPlaying,             \* React state, as last set
  isPlayingRef,
  readingInProgressRef,
  currentLineIndexRef,   \* copied from the state by the effect of a render
  isPlayingShown,        \* isPlaying as of the last render (what the buttons show)
  ctxSuspended,          \* AudioContext.state === 'suspended'
  pendingResume,         \* handlers suspended in `await resumeContext()`
  speaking,              \* line -> speak() calls in flight
  timers,                \* index -> pending setTimeout(readNext(index), 150)
  stopped,               \* ghost: handleStop ran and nothing has set playing since
  finished,              \* ghost: readNext announced the end of the script and
                         \* resetReading has not run since
  advanced,              \* ghost: user line -> syntheses of the next line started by
                         \* handleNextTurn since that user turn began
  staleSpeaking,         \* ghost: line -> speak() calls in flight that began before
                         \* the last resetReading
  staleTimers,           \* ghost: index -> pending timers set before the last
                         \* resetReading
  log,                   \* ghost: the handler runs of the last step
  appState,              \* the view: "IDLE", "CONFIGURING" or "READING"
  assignments,           \* role -> the voice assigned to it
  \* ---- synthesis cache (src/services/tts.ts, src/unnamed/part_002) ----
  service,               \* which TTSService: "provider" (tts.ts) or "gemini" (part_002)
  apiKeySet,             \* process.env.API_KEY is configured
  useDirectPlayback,     \* provider.supportsDirectPlayback()
  cache,                 \* key -> the backend call whose buffer is stored, 0: none
  pendingRequests,       \* key -> the backend call whose promise is registered, 0: none
  reqs,                  \* the getAudioBuffer invocations so far, and the state of
                         \* the backend call each one issued
  \* ---- turn matching (recognition.onresult of src/App.tsx) ----
  mExpected,             \* currentLine.text of the user's line
  mEvent,                \* event.results of the last recognition event
  mDecision,             \* whether that event called handleNextTurn
  \* ---- script parsing (src/utils/parser.ts) ----
  pText,                 \* the text of the file the user picks
  pParses,               \* what parseScript(pText) returned, the last two times
  pUpload,               \* how the last upload ended
  pScan                  \* ghost: the steps of the scan of parseScript(pText)

orchVars == << script, userRole, currentLineIndex, isPlaying, isPlayingRef,
               readingInProgressRef, currentLineIndexRef, isPlayingShown,
               ctxSuspended, pendingResume, speaking, timers, stopped, finished,
               advanced, staleSpeaking, staleTimers, log >>

cacheVars == << service, apiKeySet, useDirectPlayback, cache, pendingRequests, reqs >>

matchVars == << mExpected, mEvent, mDecision >>

parseVars == << pText, pParses, pUpload, pScan >>

pureVars == << matchVars, parseVars >>

navVars == << appState, assignments >>

vars == << orchVars, cacheVars, pureVars, navVars >>

(***************************************************************************)
(* The orchestrator's handlers as functions of a record s of the fields    *)
(* they read and write.  out is what one handler run did: the line passed  *)
(* to readNext when it went past its entry guard (step), the line handed   *)
(* to speak (spoke), the timer it set (timer) and the toast it raised.     *)
(***************************************************************************)
NoOut == [step |-> NoLine, spoke |-> NoLine, timer |-> NoLine, toast |-> "none"]

Cur ==
  [idx |-> currentLineIndex, playing |-> isPlaying, playingRef |-> isPlayingRef,
   rip |-> readingInProgressRef, speaking |-> speaking, timers |-> timers,
   stopped |-> stopped, finished |-> finished, advanced |-> advanced,
   staleSpeaking |-> staleSpeaking, staleTimers |-> staleTimers, out |-> NoOut]

NumLines == Len(script)

IsUserLineAt(index) ==
  /\ index >= 0
  /\ index < NumLines
  /\ normRole(script[index + 1]) = normRole(userRole)

\* faulty variant of readNext: the user's lines are read aloud like any other
readNext_SpeaksEveryLine(s, index) ==
  IF ~s.playingRef \/ index >= NumLines
  THEN LET s1 == IF index >= NumLines
                 THEN [s EXCEPT !.playing = FALSE, !.playingRef = FALSE,
                                !.out.toast = "complete"]
                 ELSE s
       IN [s1 EXCEPT !.rip = FALSE]
  ELSE [s EXCEPT !.rip = TRUE, !.idx = index, !.out.step = index,
                 !.speaking[index] = @ + 1, !.out.spoke = index]

\* faulty variant of readNext: past the last line nothing is stopped or announced
readNext_NoEndStop(s, index) ==
  IF ~s.playingRef \/ index >= NumLines
  THEN [s EXCEPT !.rip = FALSE]
  ELSE LET s1 == [s EXCEPT !.rip = TRUE, !.idx = index, !.out.step = index]
       IN IF IsUserLineAt(index)
          THEN [s1 EXCEPT !.playing = FALSE, !.playingRef = FALSE, !.rip = FALSE]
          ELSE [s1 EXCEPT !.speaking[index] = @ + 1, !.out.spoke = index]

\* readNext(index), up to the await on speak
readNext(s, index) ==
  IF script = NoScript THEN s
  ELSE IF ~s.playingRef \/ index >= NumLines
  THEN LET s1 == IF index >= NumLines
                 THEN [s EXCEPT !.playing = FALSE, !.playingRef = FALSE,
                                !.out.toast = "complete"]
                 ELSE s
       IN [s1 EXCEPT !.rip = FALSE]
  ELSE LET s1 == [s EXCEPT !.rip = TRUE, !.idx = index, !.out.step = index]
       IN IF IsUserLineAt(index)
          THEN [s1 EXCEPT !.playing = FALSE, !.playingRef = FALSE, !.rip = FALSE]
          ELSE [s1 EXCEPT !.speaking[index] = @ + 1, !.out.spoke = index]

\* faulty variant of afterSpeak: no timer is set for the next line
afterSpeak_NoTimer(s, index) ==
  [s EXCEPT !.speaking[index] = @ - 1, !.rip = FALSE]

\* faulty variant of afterSpeak: the timer is set without looking at isPlayingRef
afterSpeak_IgnoresStop(s, index) ==
  [s EXCEPT !.speaking[index] = @ - 1,
            !.timers[index + 1] = @ + 1, !.out.timer = index + 1]

\* readNext after `await speak(...)` resolved
afterSpeak(s, index) ==
  LET s1 == [s EXCEPT !.speaking[index] = @ - 1]
  IN IF s1.playingRef
     THEN [s1 EXCEPT !.timers[index + 1] = @ + 1, !.out.timer = index + 1]
     ELSE [s1 EXCEPT !.rip = FALSE]

\* faulty variant of speakRejected: the error is reported and reading goes on
speakRejected_GoesOn(s, index) ==
  [afterSpeak(s, index) EXCEPT !.out.toast = "ttsError"]

\* readNext's catch block: speak rejected
speakRejected(s, index) ==
  [s EXCEPT !.speaking[index] = @ - 1, !.out.toast = "ttsError",
            !.playing = FALSE, !.playingRef = FALSE, !.rip = FALSE]

\* faulty variant of startResumed: resuming goes to the line after the current one
startResumed_FromNext(s, closureIndex) ==
  LET s1 == [s EXCEPT !.playing = TRUE, !.playingRef = TRUE, !.stopped = FALSE]
      startIndex == closureIndex + 1
  IN IF ~s1.rip THEN readNext(s1, startIndex) ELSE s1

\* handleStart after `await resumeContext()`; closureIndex is currentLineIndex
\* of the render whose button was clicked
startResumed(s, closureIndex) ==
  LET s1 == [s EXCEPT !.playing = TRUE, !.playingRef = TRUE, !.stopped = FALSE]
      startIndex == IF closureIndex = NotStarted THEN 0 ELSE closureIndex
  IN IF ~s1.rip THEN readNext(s1, startIndex) ELSE s1

\* handleStart's catch block
startRejected(s) == [s EXCEPT !.out.toast = "startError"]

\* faulty variant of nextTurnResumed: isPlayingRef is left to the effect
nextTurnResumed_RefNotSet(s, nextIndex) ==
  readNext([s EXCEPT !.playing = TRUE, !.stopped = FALSE], nextIndex)

\* handleNextTurn after `await resumeContext()`
nextTurnResumed(s, nextIndex) ==
  readNext([s EXCEPT !.playing = TRUE, !.playingRef = TRUE, !.stopped = FALSE],
           nextIndex)

\* faulty variant of resetReading: isPlayingRef is left to the effect
resetReading_RefNotSet(s) ==
  [s EXCEPT !.playing = FALSE, !.idx = NotStarted,
            !.rip = FALSE, !.stopped = FALSE,
            !.advanced = [i \in LineIdx |-> 0],
            !.staleSpeaking = s.speaking, !.staleTimers = s.timers]

resetReading(s) ==
  [s EXCEPT !.playing = FALSE, !.playingRef = FALSE, !.idx = NotStarted,
            !.rip = FALSE, !.stopped = FALSE,
            !.advanced = [i \in LineIdx |-> 0],
            !.staleSpeaking = s.speaking, !.staleTimers = s.timers]

\* handleNextTurn's else branch: the user's line was the last one
nextTurnAtEnd(s) == [resetReading(s) EXCEPT !.out.toast = "end"]

handleStop(s) ==
  [s EXCEPT !.playing = FALSE, !.playingRef = FALSE, !.stopped = TRUE]

(***************************************************************************)
(* One handler run h = [kind, arg, view, at] applied to s, and its log     *)
(* entry.  kind names the code that runs, arg its argument; view is        *)
(* currentLineIndexRef and at is currentLineIndex when the handler was     *)
(* invoked.                                                                *)
(***************************************************************************)
Handle(s, h) ==
  LET s0 == [s EXCEPT !.out = NoOut]
  IN CASE h.kind = "start"        -> startResumed(s0, h.arg)
       [] h.kind = "startFailed"  -> startRejected(s0)
       [] h.kind = "next"         -> nextTurnResumed(s0, h.arg)
       [] h.kind = "nextFailed"   -> s0
       [] h.kind = "nextEnd"      -> nextTurnAtEnd(s0)
       [] h.kind = "stop"         -> handleStop(s0)
       [] h.kind = "reset"        -> resetReading(s0)
       [] h.kind = "speakDone"    -> afterSpeak(s0, h.arg)
       [] h.kind = "speakFailed"  -> speakRejected(s0, h.arg)
       [] h.kind = "timer"        -> readNext([s0 EXCEPT !.timers[h.arg] = @ - 1], h.arg)

\* the ghost count of advances: a user turn begins when readNext stops on the
\* user's line; handleNextTurn invoked on line view advances that turn.  The
\* ghost finished is set when readNext announces the end and cleared by
\* resetReading
Apply(s, h) ==
  CHOOSE r \in {
    LET t1 == IF h.kind = "next" /\ t.out.spoke # NoLine /\ h.view \in LineIdx
              THEN [t EXCEPT !.advanced[h.view] = IF @ < MaxChains + 1 THEN @ + 1 ELSE @]
              ELSE t
        t2 == IF t.out.step # NoLine /\ IsUserLineAt(t.out.step)
              THEN [t1 EXCEPT !.advanced[t.out.step] = 0]
              ELSE t1
        t3 == IF t.out.toast = "complete" THEN [t2 EXCEPT !.finished = TRUE]
              ELSE IF h.kind \in {"reset", "nextEnd"} THEN [t2 EXCEPT !.finished = FALSE]
              ELSE t2
    IN IF ~h.stale THEN t3
       ELSE IF h.kind = "timer"
       THEN [t3 EXCEPT !.staleTimers[h.arg] = @ - 1]
       ELSE [t3 EXCEPT !.staleSpeaking[h.arg] = @ - 1] : t \in { Handle(s, h) } } : TRUE

Entry(s, h, t) ==
  [kind |-> h.kind, arg |-> h.arg, view |-> h.view, at |-> h.at,
   stale |-> h.stale, by |-> h.by,
   preIdx |-> s.idx, prePlaying |-> s.playingRef, preStopped |-> s.stopped,
   preRip |-> s.rip, preFinished |-> s.finished, preSpeaking |-> s.speaking,
   postIdx |-> t.idx, postPlaying |-> t.playing, postRef |-> t.playingRef,
   step |-> t.out.step, spoke |-> t.out.spoke, timer |-> t.out.timer,
   toast |-> t.out.toast]

\* the handlers of hs run one after the other; result [s, log]
RECURSIVE RunAll(_, _, _)
RunAll(s, hs, acc) ==
  IF hs = << >>
  THEN [s |-> s, log |-> acc]
  ELSE CHOOSE r \in { RunAll(t, Tail(hs), Append(acc, Entry(s, Head(hs), t))) :
                         t \in { Apply(s, Head(hs)) } } : TRUE

\* stale: the continuation began before the last resetReading; by: what
\* invoked the handler
Handler(kind, arg) ==
  [kind |-> kind, arg |-> arg, view |-> currentLineIndexRef, at |-> currentLineIndex,
   stale |-> FALSE, by |-> "ui"]

Failed(h) == [h EXCEPT !.kind = IF h.kind = "start" THEN "startFailed" ELSE "nextFailed"]

RECURSIVE Sum(_, _)
Sum(f, S) == IF S = {} THEN 0
             ELSE LET x == CHOOSE y \in S : TRUE IN f[x] + Sum(f, S \ {x})

\* reading continuations that exist
Chains == Sum(speaking, LineIdx) + Sum(timers, TimerIdx) + Len(pendingResume)

(***************************************************************************)
(* Writing a run's result back.  State set inside a React event handler is *)
(* rendered, and the effects that copy it into the refs run, before the    *)
(* event returns (flush); state set from a promise continuation, a timer   *)
(* or a recognition callback waits for Render.                             *)
(***************************************************************************)
Commit(r, flush) ==
  /\ currentLineIndex' = r.s.idx
  /\ isPlaying' = r.s.playing
  /\ isPlayingRef' = r.s.playingRef
  /\ readingInProgressRef' = r.s.rip
  /\ speaking' = r.s.speaking
  /\ timers' = r.s.timers
  /\ stopped' = r.s.stopped
  /\ finished' = r.s.finished
  /\ advanced' = r.s.advanced
  /\ staleSpeaking' = r.s.staleSpeaking
  /\ staleTimers' = r.s.staleTimers
  /\ log' = r.log
  /\ currentLineIndexRef' = IF flush THEN r.s.idx ELSE currentLineIndexRef
  /\ isPlayingShown' = IF flush THEN r.s.playing ELSE isPlayingShown

Run(hs, flush) == Commit(RunAll(Cur, hs, << >>), flush)

\* isUserTurn of the last render
isUserTurn == currentLineIndexRef # NotStarted /\ IsUserLineAt(currentLineIndexRef)

\* `await resumeContext()`: with a suspended context the handler waits for
\* ctx.resume(); otherwise it goes on in the same task
AwaitResume(h) ==
  IF ctxSuspended
  THEN /\ pendingResume' = Append(pendingResume, h)
       /\ log' = << >>
       /\ UNCHANGED << currentLineIndex, isPlaying, isPlayingRef, readingInProgressRef,
                       currentLineIndexRef, isPlayingShown, speaking, timers, stopped, finished, advanced,
                       staleSpeaking, staleTimers >>
  ELSE /\ Run(<< h >>, FALSE)
       /\ UNCHANGED pendingResume

\* handleNextTurn()
handleNextTurn(flush) ==
  LET nextIndex == currentLineIndexRef + 1
      by == IF flush THEN "button" ELSE "transcript"
  IN IF nextIndex < NumLines
     THEN AwaitResume([Handler("next", nextIndex) EXCEPT !.by = by])
     ELSE /\ Run(<< [Handler("nextEnd", nextIndex) EXCEPT !.by = by] >>, flush)
          /\ UNCHANGED pendingResume

(***************************************************************************)
(* Actions of the orchestrator.                                            *)
(***************************************************************************)
\* the reading view is rendered
ReadingView == appState = "READING" /\ script # NoScript

\* START READING / RESUME button
HandleStart ==
  /\ ReadingView
  /\ ~isPlayingShown /\ ~isUserTurn
  /\ Chains < MaxChains
  /\ AwaitResume(Handler("start", currentLineIndexRef))
  /\ UNCHANGED << script, userRole, ctxSuspended, cacheVars, pureVars, navVars >>

\* STOP READING button
HandleStop ==
  /\ ReadingView
  /\ currentLineIndexRef >= 0 /\ isPlayingShown /\ ~IsUserLineAt(currentLineIndexRef)
  /\ Run(<< Handler("stop", NoLine) >>, TRUE)
  /\ UNCHANGED << script, userRole, ctxSuspended, pendingResume, cacheVars, pureVars, navVars >>

\* RESET button
ResetReading ==
  /\ ReadingView
  /\ Run(<< Handler("reset", NoLine) >>, TRUE)
  /\ UNCHANGED << script, userRole, ctxSuspended, pendingResume, cacheVars, pureVars, navVars >>

\* I FINISHED MY LINE button
NextTurnButton ==
  /\ ReadingView
  /\ ~isPlayingShown /\ isUserTurn
  /\ Chains < MaxChains
  /\ handleNextTurn(TRUE)
  /\ UNCHANGED << script, userRole, ctxSuspended, cacheVars, pureVars, navVars >>

\* recognition.onresult with a transcript; final: the event carries a final
\* fragment; hit: the fragment has the line's last word or enough words
OnResult ==
  \E final \in BOOLEAN, hit \in BOOLEAN :
    /\ Chains < MaxChains
    /\ IF /\ currentLineIndexRef >= 0
          /\ ~isPlayingRef
          /\ IsUserLineAt(currentLineIndexRef)
          /\ final /\ hit
       THEN handleNextTurn(FALSE)
       ELSE /\ log' = << >>
            /\ UNCHANGED << currentLineIndex, isPlaying, isPlayingRef,
                            readingInProgressRef, currentLineIndexRef, isPlayingShown,
                            speaking, timers, stopped, finished, advanced,
                            staleSpeaking, staleTimers, pendingResume >>
    /\ UNCHANGED << script, userRole, ctxSuspended, cacheVars, pureVars, navVars >>

\* ctx.resume() resolves: every handler waiting for it goes on, in order
ContextResumed ==
  /\ ctxSuspended /\ pendingResume # << >>
  /\ Run(pendingResume, FALSE)
  /\ pendingResume' = << >>
  /\ ctxSuspended' = FALSE
  /\ UNCHANGED << script, userRole, cacheVars, pureVars, navVars >>

\* ctx.resume() rejects
ContextResumeFailed ==
  /\ ctxSuspended /\ pendingResume # << >>
  /\ Run([i \in 1 .. Len(pendingResume) |-> Failed(pendingResume[i])], FALSE)
  /\ pendingResume' = << >>
  /\ UNCHANGED << script, userRole, ctxSuspended, cacheVars, pureVars, navVars >>

\* the browser suspends the audio context
ContextSuspended ==
  /\ ~ctxSuspended
  /\ ctxSuspended' = TRUE
  /\ log' = << >>
  /\ UNCHANGED << script, userRole, currentLineIndex, isPlaying, isPlayingRef,
                  readingInProgressRef, currentLineIndexRef, isPlayingShown,
                  pendingResume, speaking, timers, stopped, finished, advanced,
                  staleSpeaking, staleTimers, cacheVars, pureVars, navVars >>

\* speak(line, voice) resolves: the audio of the line has ended
SpeakDone ==
  \E i \in LineIdx, stale \in BOOLEAN :
    /\ IF stale THEN staleSpeaking[i] > 0 ELSE speaking[i] > staleSpeaking[i]
    /\ Run(<< [Handler("speakDone", i) EXCEPT !.stale = stale] >>, FALSE)
    /\ UNCHANGED << script, userRole, ctxSuspended, pendingResume, cacheVars, pureVars, navVars >>

\* speak(line, voice) rejects: synthesis or playback failed
SpeakFailed ==
  \E i \in LineIdx, stale \in BOOLEAN :
    /\ IF stale THEN staleSpeaking[i] > 0 ELSE speaking[i] > staleSpeaking[i]
    /\ Run(<< [Handler("speakFailed", i) EXCEPT !.stale = stale] >>, FALSE)
    /\ UNCHANGED << script, userRole, ctxSuspended, pendingResume, cacheVars, pureVars, navVars >>

\* the 150 ms timer set after a line fires
TimerFired ==
  \E i \in TimerIdx, stale \in BOOLEAN :
    /\ IF stale THEN staleTimers[i] > 0 ELSE timers[i] > staleTimers[i]
    /\ Run(<< [Handler("timer", i) EXCEPT !.stale = stale] >>, FALSE)
    /\ UNCHANGED << script, userRole, ctxSuspended, pendingResume, cacheVars, pureVars, navVars >>

\* React renders the pending state and runs the effects that copy it to the refs
Render ==
  /\ currentLineIndexRef # currentLineIndex \/ isPlayingShown # isPlaying
  /\ currentLineIndexRef' = currentLineIndex
  /\ isPlayingShown' = isPlaying
  /\ isPlayingRef' = isPlaying
  /\ log' = << >>
  /\ UNCHANGED << script, userRole, currentLineIndex, isPlaying, readingInProgressRef,
                  ctxSuspended, pendingResume, speaking, timers, stopped, finished, advanced,
                  staleSpeaking, staleTimers, cacheVars, pureVars, navVars >>

(***************************************************************************)
(* The synthesis cache.  Strings are sequences of characters.  A backend   *)
(* call is named by the number of the getAudioBuffer invocation that       *)
(* issued it; the buffer it yields and the promise it is wrapped in carry  *)
(* the same number.                                                        *)
(***************************************************************************)
Voices == { << "v" >>, << "v", ":", "x" >> }
Texts == { << "y" >>, << "x", ":", "y" >> }

\* `${voice}:${text}`
getCacheKey(text, voice) == voice \o << ":" >> \o text

Keys == { getCacheKey(tx, vc) : tx \in Texts, vc \in Voices }

NoCall == 0

Emptied == [k \in Keys |-> NoCall]

\* the backend calls of a (text, voice) pair that are in flight and were
\* issued after the last clearCache()
InFlightFor(text, voice) ==
  { c \in 1 .. Len(reqs) :
      /\ reqs[c].state = "inflight"
      /\ reqs[c].text = text /\ reqs[c].voice = voice
      /\ ~reqs[c].cleared }

\* the backend calls of a (text, voice) pair that yielded a buffer, with no
\* clearCache() since
SynthesizedFor(text, voice) ==
  { c \in 1 .. Len(reqs) :
      /\ reqs[c].state = "ok"
      /\ reqs[c].text = text /\ reqs[c].voice = voice
      /\ ~reqs[c].dropped }

\* the backend calls of a (text, voice) pair that failed, with no
\* clearCache() since they were issued
FailedFor(text, voice) ==
  { c \in 1 .. Len(reqs) :
      /\ reqs[c].src = "backend" /\ reqs[c].state = "failed"
      /\ reqs[c].text = text /\ reqs[c].voice = voice
      /\ ~reqs[c].cleared }

\* stored: what the cache held for the key when the invocation began;
\* dropped: clearCache() ran after the call had stored its buffer;
\* failed: the calls for the pair that had failed when the invocation began
Request(text, voice, src, call, state, contacted) ==
  [text |-> text, voice |-> voice, key |-> getCacheKey(text, voice),
   src |-> src, call |-> call, state |-> state, contacted |-> contacted,
   cleared |-> FALSE, concurrent |-> InFlightFor(text, voice),
   stored |-> cache[getCacheKey(text, voice)], dropped |-> FALSE,
   synthesized |-> SynthesizedFor(text, voice),
   failed |-> FailedFor(text, voice)]

\* faulty variant of CacheHas: the cache is never consulted
CacheHas_Never(cacheKey) == FALSE

\* this.cache.has(cacheKey)
CacheHas(cacheKey) == cache[cacheKey] # NoCall

\* faulty variant of UsesCache: the direct-playback branches are missing
UsesCache_Always(svc, direct) == TRUE

\* !this.useDirectPlayback; the Gemini service has no such branch
UsesCache(svc, direct) == ~(svc = "provider" /\ direct)

\* getAudioBuffer(text, voice), up to the first await on the backend
GetAudioBuffer ==
  \E text \in Texts, voice \in Voices :
    LET cacheKey == getCacheKey(text, voice)
        r == Len(reqs) + 1
    IN /\ Len(reqs) < MaxRequests
       /\ IF ~UsesCache(service, useDirectPlayback)
          THEN \* the provider is called, the cache is not used
               /\ reqs' = Append(reqs, Request(text, voice, "direct", r, "inflight", TRUE))
               /\ UNCHANGED << cache, pendingRequests >>
          ELSE IF CacheHas(cacheKey)
          THEN \* 1. stored buffer
               /\ reqs' = Append(reqs, Request(text, voice, "cache", cache[cacheKey],
                                               "none", FALSE))
               /\ UNCHANGED << cache, pendingRequests >>
          ELSE IF pendingRequests[cacheKey] # NoCall
          THEN \* 2. the registered promise
               /\ reqs' = Append(reqs, Request(text, voice, "pending",
                                               pendingRequests[cacheKey], "none", FALSE))
               /\ UNCHANGED << cache, pendingRequests >>
          ELSE IF service = "gemini" /\ ~apiKeySet
          THEN \* 3. the request function throws before its first await: its
               \* finally block runs, then the rejected promise is registered
               /\ reqs' = Append(reqs, Request(text, voice, "backend", r, "failed", FALSE))
               /\ pendingRequests' = [[pendingRequests EXCEPT ![cacheKey] = NoCall]
                                        EXCEPT ![cacheKey] = r]
               /\ UNCHANGED cache
          ELSE \* 3. the backend is called and the promise registered
               /\ reqs' = Append(reqs, Request(text, voice, "backend", r, "inflight", TRUE))
               /\ pendingRequests' = [pendingRequests EXCEPT ![cacheKey] = r]
               /\ UNCHANGED cache
       /\ UNCHANGED << service, apiKeySet, useDirectPlayback, orchVars, pureVars, navVars >>

\* speak(text, voice) of the provider service with direct playback: the
\* provider speaks the text itself and no buffer is asked for
Speak ==
  \E text \in Texts, voice \in Voices :
    /\ Len(reqs) < MaxRequests
    /\ ~UsesCache(service, useDirectPlayback)
    /\ reqs' = Append(reqs, Request(text, voice, "speakDirectly", Len(reqs) + 1,
                                    "inflight", TRUE))
    /\ UNCHANGED << cache, pendingRequests, service, apiKeySet, useDirectPlayback,
                    orchVars, pureVars, navVars >>

\* the backend call c yields a buffer: cache.set, then the finally block
BackendOk ==
  \E c \in 1 .. Len(reqs) :
    /\ reqs[c].state = "inflight"
    /\ reqs' = [reqs EXCEPT ![c].state = "ok"]
    /\ IF reqs[c].src \in {"direct", "speakDirectly"}
       THEN UNCHANGED << cache, pendingRequests >>
       ELSE /\ cache' = [cache EXCEPT ![reqs[c].key] = c]
            /\ pendingRequests' = [pendingRequests EXCEPT ![reqs[c].key] = NoCall]
    /\ UNCHANGED << service, apiKeySet, useDirectPlayback, orchVars, pureVars, navVars >>

\* the backend call c fails: the finally block alone
BackendFail ==
  \E c \in 1 .. Len(reqs) :
    /\ reqs[c].state = "inflight"
    /\ reqs' = [reqs EXCEPT ![c].state = "failed"]
    /\ IF reqs[c].src \in {"direct", "speakDirectly"}
       THEN UNCHANGED pendingRequests
       ELSE pendingRequests' = [pendingRequests EXCEPT ![reqs[c].key] = NoCall]
    /\ UNCHANGED << cache, service, apiKeySet, useDirectPlayback, orchVars, pureVars, navVars >>

\* clearCache()
ClearCache ==
  /\ cache' = Emptied
  /\ pendingRequests' = Emptied
  /\ reqs' = [c \in 1 .. Len(reqs) |->
                [reqs[c] EXCEPT !.cleared = TRUE,
                                !.dropped = (reqs[c].state = "ok"
                                               /\ reqs[c].src = "backend")]]
  /\ UNCHANGED << service, apiKeySet, useDirectPlayback, orchVars, pureVars, navVars >>

(***************************************************************************)
(* Strings are sequences of one-character strings.  The operators below    *)
(* do what the JavaScript string methods used by the program do.           *)
(***************************************************************************)
Strs(chars, n) == UNION { [1 .. k -> chars] : k \in 0 .. n }

\* \s
IsSpace(c) == c \in {" ", "\n"}

RECURSIVE TrimStart(_)
TrimStart(s) == IF s # << >> /\ IsSpace(Head(s)) THEN TrimStart(Tail(s)) ELSE s

RECURSIVE TrimEnd(_)
TrimEnd(s) ==
  IF s # << >> /\ IsSpace(s[Len(s)]) THEN TrimEnd(SubSeq(s, 1, Len(s) - 1)) ELSE s

\* String.prototype.trim
Trim(s) == TrimEnd(TrimStart(s))

Lower(c) == CASE c = "A" -> "a" [] c = "B" -> "b" [] OTHER -> c

\* String.prototype.toLowerCase
ToLowerCase(s) == [i \in 1 .. Len(s) |-> Lower(s[i])]

\* s.split(/\s+/): the pieces between maximal runs of whitespace; a run at
\* the start or at the end leaves an empty piece there, and "" gives [""]
RECURSIVE SplitFrom(_, _, _, _)
SplitFrom(s, i, cur, acc) ==
  IF i > Len(s) THEN Append(acc, cur)
  ELSE IF IsSpace(s[i])
       THEN IF i > 1 /\ IsSpace(s[i - 1])
            THEN SplitFrom(s, i + 1, cur, acc)
            ELSE SplitFrom(s, i + 1, << >>, Append(acc, cur))
       ELSE SplitFrom(s, i + 1, Append(cur, s[i]), acc)

SplitWhitespace(s) == SplitFrom(s, 1, << >>, << >>)

Includes(ws, w) == \E i \in 1 .. Len(ws) : ws[i] = w

\* str !== ''
NotEmpty(str) == str # << >>

(***************************************************************************)
(* Turn matching: the decision of recognition.onresult for the user's line *)
(***************************************************************************)
\* the grave accent, which a string of this notation cannot hold
BackQuote == "grave"

\* the characters of /[.,/#!$%^&*;:{}=\-_`~()]/g
Punctuation ==
  { ".", ",", "/", "#", "!", "$", "%", "^", "&", "*", ";", ":", "{", "}", "=",
    "-", "_", "~", "(", ")", BackQuote }

NotPunctuation(c) == c \notin Punctuation

\* s.replace(/[.,/#!$%^&*;:{}=\-_`~()]/g, "")
StripPunctuation(s) == SelectSeq(s, NotPunctuation)

\* the loop over event.results: the transcripts of the final results, or of
\* the others, concatenated
RECURSIVE Concatenated(_, _)
Concatenated(results, final) ==
  IF results = << >> THEN << >>
  ELSE (IF Head(results).isFinal = final THEN Head(results).transcript ELSE << >>)
         \o Concatenated(Tail(results), final)

\* spokenCount >= wordsExpected.length * 0.7, in tenths
CoverageTenths == 7

\* whether onresult calls handleNextTurn for the user's line with this text
SpeechMatch(text, results) ==
  LET finalTranscript == Concatenated(results, TRUE)
      interimTranscript == Concatenated(results, FALSE)
      transcript == ToLowerCase(Trim(IF finalTranscript # << >> THEN finalTranscript
                                                              ELSE interimTranscript))
      expectedText == StripPunctuation(ToLowerCase(text))
      cleanedTranscript == StripPunctuation(transcript)
      wordsExpected == SplitWhitespace(expectedText)
      wordsSpoken == SplitWhitespace(cleanedTranscript)
      lastWordExpected == wordsExpected[Len(wordsExpected)]
      hasLastWord == Includes(wordsSpoken, lastWordExpected)
      spokenCount == Len(wordsSpoken)
  IN /\ finalTranscript # << >>
     /\ hasLastWord \/ spokenCount * 10 >= Len(wordsExpected) * CoverageTenths

ExpectedChars == {"a", "B", " ", "."}
TranscriptChars == {"a", "b", " ", "."}

\* line texts as parseScript leaves them: trimmed
ExpectedTexts == { s \in Strs(ExpectedChars, MaxChars) : Trim(s) = s }

\* a recognition event with one result
Events ==
  { << [isFinal |-> f, transcript |-> tr] >> :
      f \in BOOLEAN, tr \in Strs(TranscriptChars, MaxChars) }

\* reading reaches another line of the user
UserLineShown ==
  /\ mExpected' \in ExpectedTexts
  /\ mEvent' = << >>
  /\ mDecision' = FALSE
  /\ UNCHANGED << orchVars, cacheVars, parseVars, navVars >>

\* recognition.onresult on the user's line
TranscriptHeard ==
  \E ev \in Events :
    /\ mEvent' = ev
    /\ mDecision' = SpeechMatch(mExpected, ev)
    /\ UNCHANGED << mExpected, orchVars, cacheVars, parseVars, navVars >>

(***************************************************************************)
(* Script parsing: parseScript of src/utils/parser.ts, and the upload      *)
(* handler of src/App.tsx that calls it.                                   *)
(***************************************************************************)
\* let title = "Untitled Script": the one string of the model that is not
\* spelled out in characters
Untitled == << "Untitled Script" >>

\* i < 3: the lines that may go to the title
TitleLines == 3
\* roleCandidate.length <= 35
MaxRoleLength == 35
\* wordCount <= 4
MaxRoleWords == 4

\* text.split('\n')
RECURSIVE SplitLinesFrom(_, _, _, _)
SplitLinesFrom(str, i, cur, acc) ==
  IF i > Len(str) THEN Append(acc, cur)
  ELSE IF str[i] = "\n"
       THEN SplitLinesFrom(str, i + 1, << >>, Append(acc, cur))
       ELSE SplitLinesFrom(str, i + 1, Append(cur, str[i]), acc)

SplitLines(str) == SplitLinesFrom(str, 1, << >>, << >>)

\* text.split('\n').map(l => l.trim()).filter(line => line !== '')
NonEmptyLines(text) ==
  LET physical == SplitLines(text)
  IN SelectSeq([k \in 1 .. Len(physical) |-> Trim(physical[k])], NotEmpty)

\* rawLine.startsWith('--') || rawLine.startsWith('-')
StartsWithDash(rawLine) == rawLine # << >> /\ rawLine[1] = "-"

\* [.:]
IsSeparator(c) == c \in {".", ":"}

\* the position of the first '.' or ':' from i on, 0 if there is none
RECURSIVE FirstSeparator(_, _)
FirstSeparator(rawLine, i) ==
  IF i > Len(rawLine) THEN 0
  ELSE IF IsSeparator(rawLine[i]) THEN i
  ELSE FirstSeparator(rawLine, i + 1)

\* rawLine.match(/^([^.:\n]+)[.:]\s*(.*)$/u): group 1 is what precedes the
\* first separator and must not be empty; group 2 is the rest of the line
\* after the whitespace that follows the separator
RoleMatch(rawLine) ==
  LET k == FirstSeparator(rawLine, 1)
  IN IF k > 1
     THEN [matched |-> TRUE,
           role |-> SubSeq(rawLine, 1, k - 1),
           rest |-> TrimStart(SubSeq(rawLine, k + 1, Len(rawLine)))]
     ELSE [matched |-> FALSE, role |-> << >>, rest |-> << >>]

\* [A-Z] (and the Cyrillic capitals), over the letters of the model
IsCapital(c) == c \in {"A", "B"}

\* \d
IsDigit(c) == c \in {"0", "1", "2", "3", "4", "5", "6", "7", "8", "9"}

\* /^[\d\s]+$/.test(str)
DigitsAndSpaces(str) ==
  str # << >> /\ \A k \in 1 .. Len(str) : IsDigit(str[k]) \/ IsSpace(str[k])

\* roleCandidate.length === 1 && /^[A-Z]\.?/.test(content)
isInitialPart(roleCandidate, content) ==
  Len(roleCandidate) = 1 /\ content # << >> /\ IsCapital(content[1])

isLikelyRole(roleCandidate, content) ==
  /\ Len(roleCandidate) >= 1
  /\ Len(roleCandidate) <= MaxRoleLength
  /\ ~Includes(roleCandidate, ",")
  /\ Len(SplitWhitespace(roleCandidate)) <= MaxRoleWords
  /\ ~DigitsAndSpaces(roleCandidate)
  /\ ~isInitialPart(roleCandidate, content)

\* the scan's state before the first line
ScanStart == [parsedLines |-> << >>, roles |-> {}, title |-> Untitled, raised |-> FALSE]

\* parsedLines[parsedLines.length - 1].text += ' ' + rawLine, which raises a
\* TypeError when there is no last line
AppendToLast(st, rawLine) ==
  IF st.parsedLines = << >> THEN [st EXCEPT !.raised = TRUE]
  ELSE [st EXCEPT !.parsedLines[Len(st.parsedLines)].text = @ \o << " " >> \o rawLine]

Dashed_Unguarded(st, rawLine) == AppendToLast(st, rawLine)

\* faulty variant of Dashed: a dash line before any dialogue becomes the title
Dashed_IntoTitle(st, rawLine) ==
  IF Len(st.parsedLines) > 0 THEN AppendToLast(st, rawLine)
  ELSE [st EXCEPT !.title = rawLine]

\* a line that starts with a dash
Dashed(st, rawLine) ==
  IF Len(st.parsedLines) > 0 THEN AppendToLast(st, rawLine) ELSE st

\* a line that starts no dialogue line: title, continuation, or dropped
NotRole(st, rawLine, i) ==
  IF i < TitleLines /\ Len(st.parsedLines) = 0
  THEN [st EXCEPT !.title = IF st.title = Untitled THEN rawLine
                            ELSE st.title \o << " " >> \o rawLine]
  ELSE IF Len(st.parsedLines) > 0 THEN AppendToLast(st, rawLine)
  ELSE st

PushLine_NoRoleAdd(st, roleCandidate, content, i, random) ==
  [st EXCEPT !.parsedLines =
               Append(@, [role |-> roleCandidate, text |-> content,
                          id |-> << "line", i, random >>])]

PushLine_RandomText(st, roleCandidate, content, i, random) ==
  [st EXCEPT !.parsedLines =
               Append(@, [role |-> roleCandidate,
                          text |-> IF random = 0 THEN content ELSE << >>,
                          id |-> << "line", i, random >>]),
             !.roles = @ \cup {roleCandidate}]

\* parsedLines.push({role, text, id}); roles.add(roleCandidate)
PushLine(st, roleCandidate, content, i, random) ==
  [st EXCEPT !.parsedLines =
               Append(@, [role |-> roleCandidate, text |-> content,
                          id |-> << "line", i, random >>]),
             !.roles = @ \cup {roleCandidate}]

\* the body of the loop for lines[i]; random is what Math.random() yields
ScanLine(st, rawLine, i, random) ==
  IF StartsWithDash(rawLine) THEN Dashed(st, rawLine)
  ELSE LET match == RoleMatch(rawLine)
           roleCandidate == Trim(match.role)
           content == Trim(match.rest)
       IN IF match.matched
          THEN IF /\ isLikelyRole(roleCandidate, content)
                  /\ Len(content) > 0 \/ roleCandidate \in st.roles
               THEN PushLine(st, roleCandidate, content, i, random)
               ELSE NotRole(st, rawLine, i)
          ELSE NotRole(st, rawLine, i)

\* for (let i = 0; i < lines.length; i++), left when a step raises
RECURSIVE Scan(_, _, _, _)
Scan(st, lines, i, randoms) ==
  IF i >= Len(lines) \/ st.raised THEN st
  ELSE Scan(ScanLine(st, lines[i + 1], i, randoms[i]), lines, i + 1, randoms)

\* the UTF-16 code unit of a character
CodeUnit(c) ==
  CASE c = "\n" -> 10 [] c = " " -> 32 [] c = "," -> 44 [] c = "-" -> 45
    [] c = "." -> 46 [] c = "1" -> 49 [] c = ":" -> 58
    [] c = "A" -> 65 [] c = "B" -> 66 [] c = "a" -> 97 [] c = "b" -> 98

\* the default order of Array.prototype.sort: by code units
RECURSIVE Before(_, _)
Before(x, y) ==
  IF x = << >> THEN y # << >>
  ELSE IF y = << >> THEN FALSE
  ELSE IF Head(x) = Head(y) THEN Before(Tail(x), Tail(y))
  ELSE CodeUnit(Head(x)) < CodeUnit(Head(y))

\* Array.from(roles).sort()
RECURSIVE SortedRoles(_)
SortedRoles(roles) ==
  IF roles = {} THEN << >>
  ELSE LET first == CHOOSE x \in roles : \A y \in roles \ {x} : Before(x, y)
       IN << first >> \o SortedRoles(roles \ {first})

\* parseScript(text), with randoms[i] what Math.random() yields for lines[i]
Returned(st, lines) ==
  [title |-> IF Len(st.parsedLines) = 0 /\ Len(lines) > 0 THEN lines[1]
             ELSE st.title,
   lines |-> st.parsedLines,
   roles |-> SortedRoles(st.roles),
   raised |-> st.raised]

parseScript(text, randoms) ==
  LET lines == NonEmptyLines(text)
  IN Returned(CHOOSE st \in {Scan(ScanStart, lines, 0, randoms)} : TRUE, lines)

\* Math.random().toString(36).substr(2, 9), as two possible values
Randoms == {0, 1}

\* physical lines: dialogue, a second role, a bare label, initials, a dash
\* line, plain text, a blank line, a numbered line, capitalized dialogue
\* after a one-letter label
SampleLines ==
  { << "A", ":", "B", "a" >>, << "A", ":", "b" >>, << "B", ":", " ", "a" >>, << "A", ":" >>,
    << "A", ".", " ", "B", "." >>, << "-", "b" >>, << "b" >>, << " " >>,
    << "1", ":", " ", "b" >> }

RECURSIVE JoinLines(_)
JoinLines(ls) ==
  IF ls = << >> THEN << >>
  ELSE IF Len(ls) = 1 THEN ls[1]
  ELSE ls[1] \o << "\n" >> \o JoinLines(Tail(ls))

\* the files: up to MaxPhysLines physical lines, separated by newlines
FileTexts ==
  { JoinLines(ls) : ls \in UNION { [1 .. n -> SampleLines] : n \in 0 .. MaxPhysLines } }

\* the texts whose scan is followed: up to MaxScanLines physical lines
ScanTexts ==
  { JoinLines(ls) : ls \in UNION { [1 .. n -> SampleLines] : n \in 0 .. MaxScanLines } }

\* a scan state without the ids of its lines
Bare(st) ==
  [lines |-> [k \in 1 .. Len(st.parsedLines) |->
                [role |-> st.parsedLines[k].role, text |-> st.parsedLines[k].text]],
   roles |-> st.roles, title |-> st.title, raised |-> st.raised]

ScanStep(st, post, rawLine, i) ==
  [i |-> i, rawLine |-> rawLine, pre |-> Bare(st), post |-> Bare(post)]

\* the loop of Scan, keeping for each line what was there before it and after
RECURSIVE ScanSteps(_, _, _, _, _)
ScanSteps(st, lines, i, randoms, acc) ==
  IF i >= Len(lines) \/ st.raised THEN acc
  ELSE LET post == ScanLine(st, lines[i + 1], i, randoms[i])
       IN ScanSteps(post, lines, i + 1, randoms,
                    Append(acc, ScanStep(st, post, lines[i + 1], i)))

\* parseScript(pText) runs its scan
ParseScript ==
  /\ pScan = << >>
  /\ \E randoms \in [0 .. Len(NonEmptyLines(pText)) - 1 -> Randoms] :
       pScan' = ScanSteps(ScanStart, NonEmptyLines(pText), 0, randoms, << >>)
  /\ UNCHANGED << pText, pParses, pUpload, matchVars, orchVars, cacheVars, navVars >>

(***************************************************************************)
(* Navigation between the views of src/App.tsx.                            *)
(***************************************************************************)
\* the default assignments: the idx-th role of parsed.roles gets
\* VOICES[idx % VOICES.length]
initialAssignments(roles) ==
  [r \in { roles[k] : k \in 1 .. Len(roles) } |->
     VOICES[(((CHOOSE k \in 1 .. Len(roles) : roles[k] = r) - 1) % Len(VOICES)) + 1]]

\* reader.onload past the check for lines: the cache is cleared, the script
\* and the default assignments are set and the configuration view is shown;
\* lineRoles are the roles of parsed.lines, roles is parsed.roles
Loaded(lineRoles, roles) ==
  /\ cache' = Emptied
  /\ pendingRequests' = Emptied
  /\ reqs' = [c \in 1 .. Len(reqs) |->
                [reqs[c] EXCEPT !.cleared = TRUE,
                                !.dropped = (reqs[c].state = "ok"
                                               /\ reqs[c].src = "backend")]]
  /\ script' = lineRoles
  /\ assignments' = initialAssignments(roles)
  /\ appState' = "CONFIGURING"

\* Array.from(roles).sort() over the role names of the model
RoleOrder == << "ALICE", "Alice", "Bob" >>

InScript(sc, r) == \E k \in 1 .. Len(sc) : sc[k] = r

RECURSIVE SortedNames(_, _)
SortedNames(sc, k) ==
  IF k > Len(RoleOrder) THEN << >>
  ELSE (IF InScript(sc, RoleOrder[k]) THEN << RoleOrder[k] >> ELSE << >>)
         \o SortedNames(sc, k + 1)

\* what parseScript can return, as the roles of its lines
ParsedScripts == UNION { [1 .. n -> RoleNames] : n \in 0 .. MaxLines }

\* handleFileUpload with a file whose parse is sc: with no dialogue line the
\* upload is rejected with a toast, otherwise the script is loaded
HandleFileUpload ==
  /\ appState = "IDLE"
  /\ \E sc \in ParsedScripts :
       IF Len(sc) = 0
       THEN /\ pUpload' = "rejected"
            /\ UNCHANGED << script, cache, pendingRequests, reqs, navVars >>
       ELSE /\ pUpload' = "loaded"
            /\ Loaded(sc, SortedNames(sc, 1))
  /\ log' = << >>
  /\ UNCHANGED << pText, pParses, pScan, matchVars, service, apiKeySet,
                  useDirectPlayback, userRole, currentLineIndex, isPlaying,
                  isPlayingRef, readingInProgressRef, currentLineIndexRef,
                  isPlayingShown, ctxSuspended, pendingResume, speaking, timers,
                  stopped, finished, advanced, staleSpeaking, staleTimers >>

\* a click on the logo: back to the start view, nothing else is touched
HeaderClick ==
  /\ appState # "IDLE"
  /\ appState' = "IDLE"
  /\ log' = << >>
  /\ UNCHANGED << script, userRole, currentLineIndex, isPlaying, isPlayingRef,
                  readingInProgressRef, currentLineIndexRef, isPlayingShown,
                  ctxSuspended, pendingResume, speaking, timers, stopped, finished, advanced,
                  staleSpeaking, staleTimers, assignments, cacheVars, pureVars >>

\* New Script button, shown while a script is loaded
NewScript ==
  /\ script # NoScript
  /\ appState' = "IDLE"
  /\ Run(<< Handler("reset", NoLine) >>, TRUE)
  /\ script' = NoScript
  /\ UNCHANGED << userRole, assignments, ctxSuspended, pendingResume,
                  cacheVars, pureVars >>

\* a role button of the configuration view
SetUserRole ==
  /\ appState = "CONFIGURING" /\ script # NoScript
  /\ \E role \in { script[k] : k \in 1 .. Len(script) } : userRole' = role
  /\ log' = << >>
  /\ UNCHANGED << script, currentLineIndex, isPlaying, isPlayingRef,
                  readingInProgressRef, currentLineIndexRef, isPlayingShown,
                  ctxSuspended, pendingResume, speaking, timers, stopped, finished, advanced,
                  staleSpeaking, staleTimers, appState, assignments,
                  cacheVars, pureVars >>

\* a voice picked for a role that is not the user's
SetAssignment ==
  /\ appState = "CONFIGURING" /\ script # NoScript
  /\ \E role \in { script[k] : k \in 1 .. Len(script) } \ {userRole},
        v \in { VOICES[k] : k \in 1 .. Len(VOICES) } :
       assignments' = [r \in DOMAIN assignments \cup {role} |->
                         IF r = role THEN v ELSE assignments[r]]
  /\ log' = << >>
  /\ UNCHANGED << script, userRole, currentLineIndex, isPlaying, isPlayingRef,
                  readingInProgressRef, currentLineIndexRef, isPlayingShown,
                  ctxSuspended, pendingResume, speaking, timers, stopped, finished, advanced,
                  staleSpeaking, staleTimers, appState, cacheVars, pureVars >>

\* faulty variant of GoDisabled: the button is always enabled
GoDisabled_Never(role, sc) == FALSE

\* disabled={!userRole || script.lines.length === 0}
GoDisabled(role, sc) == role = NoRole \/ Len(sc) = 0

\* the button that opens the reading view
GoToReading ==
  /\ appState = "CONFIGURING" /\ script # NoScript
  /\ ~GoDisabled(userRole, script)
  /\ appState' = "READING"
  /\ log' = << >>
  /\ UNCHANGED << script, userRole, currentLineIndex, isPlaying, isPlayingRef,
                  readingInProgressRef, currentLineIndexRef, isPlayingShown,
                  ctxSuspended, pendingResume, speaking, timers, stopped, finished, advanced,
                  staleSpeaking, staleTimers, assignments, cacheVars, pureVars >>

\* reader.onload of handleFileUpload: parse the text; with no dialogue line
\* the upload is rejected with a toast, otherwise the cache is cleared and
\* the script is set
FileRead ==
  /\ appState = "IDLE"
  /\ \E randoms \in [0 .. Len(NonEmptyLines(pText)) - 1 -> Randoms] :
     \E parsed \in {parseScript(pText, randoms)} :
          /\ pParses' = (IF Len(pParses) < 2 THEN pParses ELSE Tail(pParses))
                           \o << parsed >>
          /\ IF parsed.raised
             THEN /\ pUpload' = "error"
                  /\ UNCHANGED << script, cache, pendingRequests, reqs, navVars >>
             ELSE IF Len(parsed.lines) = 0
             THEN /\ pUpload' = "rejected"
                  /\ UNCHANGED << script, cache, pendingRequests, reqs, navVars >>
             ELSE /\ pUpload' = "loaded"
                  /\ Loaded([k \in 1 .. Len(parsed.lines) |-> parsed.lines[k].role],
                            parsed.roles)
  /\ UNCHANGED << pText, pScan, matchVars, service, apiKeySet, useDirectPlayback,
                  userRole, currentLineIndex, isPlaying, isPlayingRef,
                  readingInProgressRef, currentLineIndexRef, isPlayingShown,
                  ctxSuspended, pendingResume, speaking, timers, stopped, finished,
                  advanced, staleSpeaking, staleTimers, log >>

\* the role the user rehearses; the handlers compare roles only through
\* normRole, so one selected role stands for any
SelectedRole == "Alice"

\* the scripts that offer the selected role
Scripts ==
  { sc \in UNION { [1 .. n -> RoleNames] : n \in 1 .. MaxLines } :
      \E i \in 1 .. Len(sc) : sc[i] = SelectedRole }

\* a new TTSService: nothing stored, nothing pending
NewService ==
  /\ cache = Emptied
  /\ pendingRequests = Emptied
  /\ reqs = << >>

\* no user line shown yet, no recognition event yet
NoTurn ==
  /\ mExpected = << >>
  /\ mEvent = << >>
  /\ mDecision = FALSE

\* no file picked yet
NoFile ==
  /\ pText = << >>
  /\ pParses = << >>
  /\ pUpload = "none"
  /\ pScan = << >>

Init ==
  /\ service = "gemini"
  /\ apiKeySet = TRUE
  /\ useDirectPlayback = FALSE
  /\ NewService
  /\ NoTurn
  /\ NoFile
  /\ script \in Scripts
  /\ appState = "READING"
  /\ assignments = initialAssignments(SortedNames(script, 1))
  /\ userRole = SelectedRole
  /\ currentLineIndex = NotStarted
  /\ isPlaying = FALSE
  /\ isPlayingRef = FALSE
  /\ readingInProgressRef = FALSE
  /\ currentLineIndexRef = NotStarted
  /\ isPlayingShown = FALSE
  /\ ctxSuspended \in BOOLEAN
  /\ pendingResume = << >>
  /\ speaking = [i \in LineIdx |-> 0]
  /\ timers = [i \in TimerIdx |-> 0]
  /\ stopped = FALSE
  /\ finished = FALSE
  /\ advanced = [i \in LineIdx |-> 0]
  /\ staleSpeaking = [i \in LineIdx |-> 0]
  /\ staleTimers = [i \in TimerIdx |-> 0]
  /\ log = << >>

Next ==
  \/ HandleStart
  \/ HandleStop
  \/ ResetReading
  \/ NextTurnButton
  \/ OnResult
  \/ ContextResumed
  \/ ContextResumeFailed
  \/ ContextSuspended
  \/ SpeakDone
  \/ SpeakFailed
  \/ TimerFired
  \/ Render

Spec == Init /\ [][Next]_vars

\* a reading in which nothing fails and the user neither stops nor resets:
\* every speak ends, every timer fires, every resume of the audio context
\* succeeds, React renders what was set, and the user ends each of their
\* turns with the button
LiveNext ==
  \/ HandleStart
  \/ NextTurnButton
  \/ OnResult
  \/ ContextResumed
  \/ ContextSuspended
  \/ SpeakDone
  \/ TimerFired
  \/ Render

LiveSpec ==
  /\ Init
  /\ [][LiveNext]_vars
  /\ WF_vars(NextTurnButton)
  /\ WF_vars(ContextResumed)
  /\ WF_vars(SpeakDone)
  /\ WF_vars(TimerFired)
  /\ WF_vars(Render)

\* a one-line script loaded, reading not started
NotReading ==
  /\ script = << SelectedRole >>
  /\ appState = "READING"
  /\ assignments = initialAssignments(<< SelectedRole >>)
  /\ userRole = SelectedRole
  /\ currentLineIndex = NotStarted
  /\ isPlaying = FALSE
  /\ isPlayingRef = FALSE
  /\ readingInProgressRef = FALSE
  /\ currentLineIndexRef = NotStarted
  /\ isPlayingShown = FALSE
  /\ ctxSuspended = FALSE
  /\ pendingResume = << >>
  /\ speaking = [i \in LineIdx |-> 0]
  /\ timers = [i \in TimerIdx |-> 0]
  /\ stopped = FALSE
  /\ finished = FALSE
  /\ advanced = [i \in LineIdx |-> 0]
  /\ staleSpeaking = [i \in LineIdx |-> 0]
  /\ staleTimers = [i \in TimerIdx |-> 0]
  /\ log = << >>

\* the cache on its own, for either service and any configuration of it
CacheInit ==
  /\ service \in {"provider", "gemini"}
  /\ apiKeySet \in BOOLEAN
  /\ useDirectPlayback \in (IF service = "provider" THEN BOOLEAN ELSE {FALSE})
  /\ NewService
  /\ NoTurn
  /\ NoFile
  /\ NotReading

CacheNext ==
  \/ GetAudioBuffer
  \/ BackendOk
  \/ BackendFail
  \/ ClearCache

CacheSpec == CacheInit /\ [][CacheNext]_vars

\* the provider service over a provider that plays directly (Web Speech)
DirectInit ==
  /\ service = "provider"
  /\ apiKeySet = TRUE
  /\ useDirectPlayback = TRUE
  /\ NewService
  /\ NoTurn
  /\ NoFile
  /\ NotReading

DirectNext ==
  \/ GetAudioBuffer
  \/ Speak
  \/ BackendOk
  \/ BackendFail
  \/ ClearCache

DirectSpec == DirectInit /\ [][DirectNext]_vars

\* the Gemini service as constructed, configured
GeminiService ==
  /\ service = "gemini"
  /\ apiKeySet = TRUE
  /\ useDirectPlayback = FALSE
  /\ NewService

\* turn matching on its own: any line of the user, any recognition event
MatcherInit ==
  /\ GeminiService
  /\ NotReading
  /\ NoFile
  /\ mExpected \in ExpectedTexts
  /\ mEvent = << >>
  /\ mDecision = FALSE

MatcherNext ==
  \/ UserLineShown
  \/ TranscriptHeard

MatcherSpec == MatcherInit /\ [][MatcherNext]_vars

\* the App component as constructed: the start view, no script
Constructed ==
  /\ appState = "IDLE"
  /\ script = NoScript
  /\ userRole = NoRole
  /\ assignments = NoAssignments
  /\ currentLineIndex = NotStarted
  /\ isPlaying = FALSE
  /\ isPlayingRef = FALSE
  /\ readingInProgressRef = FALSE
  /\ currentLineIndexRef = NotStarted
  /\ isPlayingShown = FALSE
  /\ pendingResume = << >>
  /\ speaking = [i \in LineIdx |-> 0]
  /\ timers = [i \in TimerIdx |-> 0]
  /\ stopped = FALSE
  /\ finished = FALSE
  /\ advanced = [i \in LineIdx |-> 0]
  /\ staleSpeaking = [i \in LineIdx |-> 0]
  /\ staleTimers = [i \in TimerIdx |-> 0]
  /\ log = << >>

\* reading with the navigation between the views, the audio context running
AppInit ==
  /\ GeminiService
  /\ NoTurn
  /\ NoFile
  /\ Constructed
  /\ ctxSuspended = FALSE

AppNext ==
  \/ HandleFileUpload
  \/ HeaderClick
  \/ NewScript
  \/ SetUserRole
  \/ GoToReading
  \/ HandleStart
  \/ HandleStop
  \/ ResetReading
  \/ NextTurnButton
  \/ OnResult
  \/ SpeakDone
  \/ SpeakFailed
  \/ TimerFired
  \/ Render

AppSpec == AppInit /\ [][AppNext]_vars

\* the configuration of a reading on its own
ConfigInit ==
  /\ GeminiService
  /\ NoTurn
  /\ NoFile
  /\ Constructed
  /\ ctxSuspended = FALSE

ConfigNext ==
  \/ HandleFileUpload
  \/ HeaderClick
  \/ NewScript
  \/ SetUserRole
  \/ SetAssignment
  \/ GoToReading

ConfigSpec == ConfigInit /\ [][ConfigNext]_vars

\* parsing on its own: any file, uploaded any number of times from the
\* start view
ParserInit ==
  /\ GeminiService
  /\ Constructed
  /\ ctxSuspended = FALSE
  /\ NoTurn
  /\ pText \in FileTexts
  /\ pParses = << >>
  /\ pUpload = "none"
  /\ pScan = << >>

ParserNext ==
  \/ FileRead
  \/ HeaderClick

ParserSpec == ParserInit /\ [][ParserNext]_vars

\* the scan of parseScript on its own, line by line
ScanInit ==
  /\ GeminiService
  /\ NotReading
  /\ NoTurn
  /\ pText \in ScanTexts
  /\ pParses = << >>
  /\ pUpload = "none"
  /\ pScan = << >>

ScanNext == ParseScript

ScanSpec == ScanInit /\ [][ScanNext]_vars

(***************************************************************************)
(* Properties of the orchestrator, stated over the handler runs of a step. *)
(***************************************************************************)
Runs == { log[k] : k \in 1 .. Len(log) }

\* C2: reading started from Idle begins at line 0 and goes on line by line
\* (the timer set after line i is for line i + 1); no line of the user's role
\* is ever handed to speak; and a readNext that reaches a line of the user's
\* role leaves currentLineIndex on that line with isPlaying false and nothing
\* synthesized - in particular for line 0 when reading starts there.
C2_StartStopsAtUserLine ==
  \A e \in Runs :
    /\ (e.kind = "start" /\ e.arg = NotStarted /\ e.preIdx = NotStarted) => e.step = 0
    /\ (e.kind = "speakDone" /\ e.timer # NoLine) => e.timer = e.arg + 1
    /\ (e.kind = "timer" /\ e.step # NoLine) => e.step = e.arg
    /\ e.spoke # NoLine => (e.spoke = e.step /\ ~IsUserLineAt(e.spoke))
    /\ (e.step # NoLine /\ IsUserLineAt(e.step)) =>
          /\ e.postIdx = e.step
          /\ ~e.postPlaying /\ ~e.postRef
          /\ e.spoke = NoLine
    /\ (e.step # NoLine /\ ~IsUserLineAt(e.step)) => e.spoke = e.step

\* reading that started at line 0 went on to line 1, the user's, and stopped there
C2_Witness ==
  \E e \in Runs :
    /\ e.kind = "timer" /\ e.arg = 1 /\ e.step = 1
    /\ IsUserLineAt(1) /\ ~IsUserLineAt(0)
    /\ e.postIdx = 1 /\ ~e.postPlaying /\ e.spoke = NoLine

\* C3: the advance triggers of one user turn start the synthesis of the next
\* line at most once; every other trigger is a no-op.
C3_OneAdvancePerTurn ==
  \A i \in LineIdx : advanced[i] <= 1

\* C4: a start whose button showed line i (i >= 0) reads from line i: it never
\* moves the index to another line and never synthesizes another line; when
\* the index is still i it stays i.
C4_ResumeSameLine ==
  \A e \in Runs :
    (e.kind = "start" /\ e.arg >= 0) =>
      /\ e.postIdx \in {e.arg, e.preIdx}
      /\ e.preIdx = e.arg => e.postIdx = e.arg
      /\ e.step \in {NoLine, e.arg}
      /\ e.spoke \in {NoLine, e.arg}

\* a stop during the reading of line 1, then a resume that reads line 1 again
C4_Witness ==
  \E e \in Runs :
    /\ e.kind = "start" /\ e.preStopped
    /\ e.arg = 1 /\ e.preIdx = 1
    /\ e.postIdx = 1 /\ e.spoke = 1

\* C5: when speak rejects, the error is reported, isPlaying becomes false, the
\* index stays where it was, and no step to the next line is scheduled.
C5_SpeakFailureStops ==
  \A e \in Runs :
    e.kind = "speakFailed" =>
      /\ e.toast = "ttsError"
      /\ ~e.postPlaying /\ ~e.postRef
      /\ e.postIdx = e.preIdx
      /\ e.timer = NoLine /\ e.step = NoLine /\ e.spoke = NoLine

\* speak rejected while line 0 of a longer script was being read
C5_Witness ==
  \E e \in Runs :
    /\ e.kind = "speakFailed" /\ e.arg = 0 /\ e.preIdx = 0 /\ e.prePlaying
    /\ NumLines > 1 /\ e.postIdx = 0

C8_NextTurnStepsOnce ==
  \A e \in Runs :
    e.kind = "next" =>
      /\ e.arg = e.view + 1
      /\ e.step = e.arg /\ e.postIdx = e.arg
      /\ IsUserLineAt(e.arg) => (~e.postPlaying /\ e.spoke = NoLine)
      /\ ~IsUserLineAt(e.arg) => (e.postPlaying /\ e.spoke = e.arg)

\* an advance from the user's line 0 to line 1, which is read aloud
C8_Witness ==
  \E e \in Runs :
    /\ e.kind = "next" /\ e.view = 0 /\ e.at = 0 /\ e.preIdx = 0
    /\ IsUserLineAt(0) /\ e.postIdx = 1 /\ e.spoke = 1

\* C14: readNext invoked with an index past the last line stops the reading:
\* isPlaying becomes false, the completion toast is raised, the index is left
\* alone and nothing is synthesized or scheduled.
C14_EndOfScriptStops ==
  \A e \in Runs :
    (e.kind = "timer" /\ e.arg >= NumLines) =>
      /\ ~e.postPlaying /\ ~e.postRef
      /\ e.toast = "complete"
      /\ e.postIdx = e.preIdx
      /\ e.step = NoLine /\ e.spoke = NoLine /\ e.timer = NoLine

\* the timer set after the last line of a two-line script fired while playing
C14_Witness ==
  \E e \in Runs :
    /\ e.kind = "timer" /\ e.arg = NumLines /\ NumLines = 2
    /\ e.prePlaying /\ e.preIdx = 1
    /\ ~e.postPlaying /\ e.toast = "complete"

\* C18: a continuation that began before a resetReading (a speak call in
\* flight, a pending timer) changes neither the index nor starts a synthesis
\* when it completes or fires, whether or not reading was started again.
C18_StaleContinuationInert ==
  \A e \in Runs :
    e.stale =>
      /\ e.postIdx = e.preIdx
      /\ e.step = NoLine /\ e.spoke = NoLine

\* C19: a transcript event that arrives while isPlaying is true, while the
\* index is -1 or while the current line is not the user's leaves the index
\* and isPlaying as they are and starts no synthesis.
C19_TranscriptOnlyInUserTurn ==
  \A e \in Runs :
    (/\ e.by = "transcript"
     /\ e.at = NotStarted \/ ~IsUserLineAt(e.at)) =>
      /\ e.postIdx = e.preIdx
      /\ e.postPlaying = e.prePlaying
      /\ e.spoke = NoLine

\* C20: handleNextTurn on the last line, the user's, ends in the state that
\* the automatic reading of a last line ends in: the index on the last line,
\* isPlaying false, and a notice raised.
C20_SameFinishedState ==
  \A e \in Runs :
    (\/ e.kind = "nextEnd"
     \/ (e.kind = "timer" /\ e.arg >= NumLines /\ e.prePlaying
           /\ e.preIdx = NumLines - 1)) =>
      /\ e.postIdx = NumLines - 1
      /\ ~e.postPlaying
      /\ e.toast \in {"complete", "end"}

(***************************************************************************)
(* Properties of the synthesis cache.                                      *)
(***************************************************************************)
Caching == ~(service = "provider" /\ useDirectPlayback)

\* C1: a getAudioBuffer invocation that finds a backend call for the same
\* (text, voice) in flight, with no clearCache() since that call was issued,
\* issues no backend call of its own and receives that call's promise.
C1_SecondCallCoalesces ==
  Caching =>
    \A b \in 1 .. Len(reqs) :
      \A a \in reqs[b].concurrent :
        reqs[b].src = "pending" /\ reqs[b].call = a

\* C9: a backend call that failed, whatever the failure, has left no buffer
\* in the cache and no promise in the pending table, so that the next
\* getAudioBuffer for its key issues a new backend call.
C9_FailureLeavesNothing ==
  Caching =>
    \A c \in 1 .. Len(reqs) :
      (reqs[c].src = "backend" /\ reqs[c].state = "failed") =>
        /\ cache[reqs[c].key] # c
        /\ pendingRequests[reqs[c].key] # c

\* C10: at most one backend call per composite key is in flight.
C10_OneInFlightPerKey ==
  Caching =>
    \A k \in Keys :
      Cardinality({ c \in 1 .. Len(reqs) :
                      reqs[c].state = "inflight" /\ reqs[c].key = k }) <= 1

\* C11: the cache holds only buffers of backend calls issued after the most
\* recent clearCache(): the result of a call that was in flight when
\* clearCache() ran is not stored when the call completes.
C11_NoStaleStore ==
  Caching =>
    \A k \in Keys : cache[k] # NoCall => ~reqs[cache[k]].cleared

\* C12: a getAudioBuffer invocation that finds an entry for its key returns
\* that buffer and calls no backend; and once a (text, voice) pair has been
\* synthesized, with no clearCache() since, every later invocation for the
\* pair is served from the cache.
C12_CacheHitNoBackend ==
  Caching =>
    \A b \in 1 .. Len(reqs) :
      /\ reqs[b].stored # NoCall =>
            /\ reqs[b].src = "cache" /\ reqs[b].call = reqs[b].stored
            /\ reqs[b].state = "none" /\ ~reqs[b].contacted
      /\ reqs[b].synthesized # {} => reqs[b].src = "cache"

\* an invocation served the buffer that an earlier call for the pair yielded
C12_Witness ==
  /\ Caching
  /\ \E b \in 1 .. Len(reqs) :
       reqs[b].src = "cache" /\ reqs[b].call \in reqs[b].synthesized

\* C27: a backend failure met while a command is handled (ctx.resume()
\* rejecting under start or under the advance after a user turn, speak
\* rejecting under the reading step) is reported and leaves reading paused
\* on the same line; a handler that ends without a report let it escape.
C27_FailuresCaught ==
  \A e \in Runs :
    e.kind \in {"startFailed", "nextFailed", "speakFailed"} =>
      /\ e.toast # "none"
      /\ ~e.postPlaying
      /\ e.postIdx = e.preIdx

\* C21: when reading was halted by a synthesis failure at a line, the next
\* speak of that line reaches the cache layer as a getAudioBuffer invocation
\* for the same (text, voice); with nothing stored and no call in flight for
\* the pair, that invocation issues a backend call of its own and does not
\* hand back the failed call.
C21_RetryIssuesNewCall ==
  Caching =>
    \A b \in 1 .. Len(reqs) :
      (reqs[b].failed # {} /\ reqs[b].stored = NoCall /\ reqs[b].concurrent = {}) =>
        /\ reqs[b].src = "backend"
        /\ reqs[b].call = b

\* C23: a buffer stored under a key stays the value of that key until
\* clearCache() removes it: no step replaces it by another call's buffer.
C23_EntriesImmutable ==
  [][\A k \in Keys :
       (cache[k] # NoCall /\ cache'[k] # NoCall) => cache'[k] = cache[k]]_vars

\* C24: an invocation that is served from the cache or joins a registered
\* promise gets the buffer of a backend call that was issued for its own
\* text and its own voice.
C24_KeyIdentifiesPair ==
  Caching =>
    \A b \in 1 .. Len(reqs) :
      reqs[b].src \in {"cache", "pending"} =>
        /\ reqs[reqs[b].call].text = reqs[b].text
        /\ reqs[reqs[b].call].voice = reqs[b].voice

\* C25: with a backend that plays directly, speak hands the text to the
\* backend's speakDirectly, every getAudioBuffer invocation calls the backend
\* itself, and the cache and the pending table stay empty.
C25_DirectBypassesCache ==
  ~Caching =>
    /\ cache = Emptied
    /\ pendingRequests = Emptied
    /\ \A b \in 1 .. Len(reqs) :
         /\ reqs[b].src \in {"direct", "speakDirectly"}
         /\ reqs[b].call = b /\ reqs[b].contacted

\* the same pair was asked for twice after its first call had yielded a
\* buffer, and it was spoken as well
C25_Witness ==
  /\ ~Caching
  /\ \E a, b, c \in 1 .. Len(reqs) :
       /\ a < b
       /\ reqs[a].src = "direct" /\ reqs[b].src = "direct"
       /\ reqs[a].text = reqs[b].text /\ reqs[a].voice = reqs[b].voice
       /\ reqs[a].state = "ok" /\ reqs[b].synthesized = {a}
       /\ reqs[c].src = "speakDirectly"

(***************************************************************************)
(* Properties of turn matching.                                            *)
(***************************************************************************)
\* the words of a string: lowercased, the punctuation stripped, cut at
\* whitespace
Words(str) == SelectSeq(SplitWhitespace(StripPunctuation(ToLowerCase(str))), NotEmpty)

\* C13: a recognition event completes the user's turn exactly when its
\* fragment is final and either the last word of the expected line is among
\* the spoken words or the spoken words number at least 0.7 times the
\* expected words; an interim fragment never completes it.
C13_TurnCompleteIff ==
  mEvent # << >> =>
    LET expected == Words(mExpected)
        spoken == Words(mEvent[1].transcript)
        matchedLastWord == expected # << >> /\ Includes(spoken, expected[Len(expected)])
    IN mDecision <=>
         /\ mEvent[1].isFinal
         /\ matchedLastWord
              \/ Len(spoken) * 10 >= Len(expected) * CoverageTenths

\* C28: a recognition event whose transcript has no spoken word (empty, or
\* only whitespace and punctuation) completes no turn, whatever the expected
\* line, a line of zero words included.
C28_NoWordsNoCompletion ==
  (mEvent # << >> /\ mDecision) => Words(mEvent[1].transcript) # << >>

(***************************************************************************)
(* Properties of script parsing.                                           *)
(***************************************************************************)
\* the role values of the lines of a parse
LineRoles(parsed) == { parsed.lines[k].role : k \in 1 .. Len(parsed.lines) }

\* the elements of the roles of a parse
ListedRoles(parsed) == { parsed.roles[k] : k \in 1 .. Len(parsed.roles) }

\* a parse without its ids
Structure(parsed) ==
  [title |-> parsed.title,
   roles |-> parsed.roles,
   lines |-> [k \in 1 .. Len(parsed.lines) |->
                << parsed.lines[k].role, parsed.lines[k].text >>]]

Ids(parsed) == [k \in 1 .. Len(parsed.lines) |-> parsed.lines[k].id]

\* C15: the roles parseScript returns are exactly the distinct role values
\* of the lines it returns: every line's role is listed, and every listed
\* role is the role of some line.
C15_RolesAreLineRoles ==
  \A n \in 1 .. Len(pParses) :
    /\ ListedRoles(pParses[n]) = LineRoles(pParses[n])
    /\ Len(pParses[n].roles) = Cardinality(LineRoles(pParses[n]))

\* a parse with more lines than roles, and more than one role
C15_Witness ==
  \E n \in 1 .. Len(pParses) :
    /\ Cardinality(LineRoles(pParses[n])) = 2
    /\ Len(pParses[n].lines) > 2

\* C16: two parses of the same text have the same title, the same roles
\* sequence and the same sequence of (role, text) pairs; only ids differ.
C16_DeterministicUpToIds ==
  \A n, m \in 1 .. Len(pParses) : Structure(pParses[n]) = Structure(pParses[m])

\* the text was parsed twice, into lines whose ids differ
C16_Witness ==
  /\ Len(pParses) = 2
  /\ Len(pParses[1].lines) > 1
  /\ Ids(pParses[1]) # Ids(pParses[2])

\* C17: parseScript raises for no text; a parse with no dialogue line has no
\* roles either, and it is the upload handler that rejects it.
C17_ParseIsTotal ==
  \A n \in 1 .. Len(pParses) :
    /\ ~pParses[n].raised
    /\ Len(pParses[n].lines) = 0 => pParses[n].roles = << >>
    /\ n = Len(pParses) =>
          /\ pUpload \in {"rejected", "loaded"}
          /\ pUpload = "rejected" <=> Len(pParses[n].lines) = 0

\* a text of dash lines and unlabelled lines only was parsed and the upload
\* rejected
C17_Witness ==
  /\ pUpload = "rejected"
  /\ Len(NonEmptyLines(pText)) > 1
  /\ StartsWithDash(NonEmptyLines(pText)[1])
  /\ pParses[Len(pParses)].lines = << >>

\* the number, from 0, of the physical line of a text that is its i-th
\* line with something on it
RECURSIVE PhysicalIndex(_, _, _)
PhysicalIndex(physical, k, i) ==
  IF Trim(physical[k]) # << >>
  THEN IF i = 0 THEN k - 1 ELSE PhysicalIndex(physical, k + 1, i - 1)
  ELSE PhysicalIndex(physical, k + 1, i)

\* the line of step e was appended to the last dialogue line, after a space
AppendedToLast(e) ==
  /\ e.pre.lines # << >>
  /\ e.post.title = e.pre.title /\ e.post.roles = e.pre.roles
  /\ e.post.lines = [e.pre.lines EXCEPT ![Len(e.pre.lines)].text =
                                          @ \o << " " >> \o e.rawLine]

\* the line of step e was folded into the title
FoldedIntoTitle(e) ==
  /\ e.post.lines = e.pre.lines /\ e.post.roles = e.pre.roles
  /\ e.post.title = IF e.pre.title = Untitled THEN e.rawLine
                    ELSE e.pre.title \o << " " >> \o e.rawLine

\* C29: a line with an accepted role label starts a dialogue line exactly
\* when its remainder is not empty or its role has appeared before; every
\* other line that starts with no dash is folded into the title, which
\* happens only before the first dialogue line and among the first three
\* physical lines, or is appended to the last dialogue line; none is
\* discarded.
C29_LineNeverDiscarded ==
  \A k \in 1 .. Len(pScan) :
    LET e == pScan[k]
        match == RoleMatch(e.rawLine)
        label == Trim(match.role)
        rest == Trim(match.rest)
        accepted == match.matched /\ isLikelyRole(label, rest)
        starts == Len(e.post.lines) = Len(e.pre.lines) + 1
    IN ~StartsWithDash(e.rawLine) =>
         /\ ~e.post.raised
         /\ starts <=> (accepted /\ (rest # << >> \/ label \in e.pre.roles))
         /\ starts => e.post.lines = Append(e.pre.lines, [role |-> label, text |-> rest])
         /\ ~starts =>
               \/ /\ FoldedIntoTitle(e)
                  /\ e.pre.lines = << >>
                  /\ PhysicalIndex(SplitLines(pText), 1, e.i) < TitleLines
               \/ AppendedToLast(e)

\* C30: a line that starts with a dash creates no dialogue line, adds no
\* role and leaves the title as it is; with a dialogue line before it, the
\* whole line is appended to that line's text after one space, and without
\* one it is dropped.
C30_DashLineContinues ==
  \A k \in 1 .. Len(pScan) :
    LET e == pScan[k]
    IN StartsWithDash(e.rawLine) =>
         /\ ~e.post.raised
         /\ Len(e.post.lines) = Len(e.pre.lines)
         /\ e.post.roles = e.pre.roles
         /\ e.post.title = e.pre.title
         /\ IF e.pre.lines # << >> THEN AppendedToLast(e) ELSE e.post = e.pre

\* one scan dropped a dash line that came before any dialogue and appended a
\* later one to a dialogue line
C30_Witness ==
  \E k, m \in 1 .. Len(pScan) :
    /\ k < m
    /\ StartsWithDash(pScan[k].rawLine) /\ pScan[k].pre.lines = << >>
    /\ pScan[k].post = pScan[k].pre
    /\ StartsWithDash(pScan[m].rawLine) /\ pScan[m].pre.lines # << >>
    /\ pScan[m].post.lines # pScan[m].pre.lines

\* C26: the reading view is entered only with a user role chosen and a
\* script of at least one line, and then every role of the script other
\* than the user's has a voice assigned.
C26_ReadingNeedsConfiguration ==
  [][(appState # "READING" /\ appState' = "READING") =>
       /\ userRole' # NoRole
       /\ script' # NoScript /\ Len(script') >= 1
       /\ \A k \in 1 .. Len(script') :
            script'[k] # userRole' =>
              /\ script'[k] \in DOMAIN assignments'
              /\ \E v \in 1 .. Len(VOICES) : assignments'[script'[k]] = VOICES[v]]_vars

\* the reading view is open on a script with a role other than the user's,
\* whose voice the user picked
C26_Witness ==
  /\ appState = "READING"
  /\ userRole = "Alice"
  /\ InScript(script, "Bob")
  /\ assignments["Bob"] = "Zephyr"

\* C22: right after a script is loaded no line is current, nothing is
\* playing and no continuation of an earlier reading exists.
C22_LoadDiscardsReading ==
  [][(appState = "IDLE" /\ appState' = "CONFIGURING") =>
       /\ currentLineIndex' = NotStarted
       /\ ~isPlaying'
       /\ Chains' = 0]_vars

\* the label of a line is a single capital letter followed by a period and
\* the remainder begins with a capital letter followed by a period
InitialsFragment(rawLine, label, rest) ==
  /\ Len(label) = 1 /\ IsCapital(label[1])
  /\ rawLine[FirstSeparator(rawLine, 1)] = "."
  /\ Len(rest) >= 2 /\ IsCapital(rest[1]) /\ rest[2] = "."

\* C31: a matched label is accepted as a role exactly when it has 1 to 35
\* characters, no comma, at most 4 words, is not made of digits and spaces
\* only and is not an initials fragment; a one-letter label followed by
\* ordinary capitalized dialogue is accepted.  Seen on the lines whose
\* remainder is not empty or whose label is a known role: those start a
\* dialogue line exactly when the label is accepted.
C31_RoleAcceptance ==
  \A k \in 1 .. Len(pScan) :
    LET e == pScan[k]
        match == RoleMatch(e.rawLine)
        label == Trim(match.role)
        rest == Trim(match.rest)
    IN (/\ ~StartsWithDash(e.rawLine)
        /\ match.matched
        /\ (rest # << >> \/ label \in e.pre.roles)) =>
         (Len(e.post.lines) = Len(e.pre.lines) + 1
            <=> /\ Len(label) >= 1 /\ Len(label) <= MaxRoleLength
                /\ ~Includes(label, ",")
                /\ Len(SplitWhitespace(label)) <= MaxRoleWords
                /\ ~DigitsAndSpaces(label)
                /\ ~InitialsFragment(e.rawLine, label, rest))

\* C32: at any time at most one line is being synthesized or played, and at
\* most one reading continuation (a speak in flight or a pending timer
\* between lines) exists.
C32_OneContinuation ==
  /\ Sum(speaking, LineIdx) <= 1
  /\ Sum(speaking, LineIdx) + Sum(timers, TimerIdx) <= 1

\* C33: while a script is loaded, currentLineIndex is -1 or the index of one
\* of its lines, also after a shorter script was loaded over a reading.
C33_IndexInScript ==
  script # NoScript =>
    \/ currentLineIndex = NotStarted
    \/ (0 <= currentLineIndex /\ currentLineIndex < Len(script))

\* C34: currentLineIndex changes only from -1 to 0, from i to i + 1, or to
\* -1; it never jumps over a line and never goes back to an earlier line.
C34_NoSkipNoReturn ==
  [][currentLineIndex' # currentLineIndex =>
       \/ currentLineIndex' = NotStarted
       \/ currentLineIndex' = currentLineIndex + 1]_vars

\* the step just taken announced the end of the script and nothing plays
Finished ==
  /\ ~isPlaying
  /\ \E e \in Runs : e.toast \in {"complete", "end"}

\* C35: when every speak ends, every user turn is completed and nobody stops
\* or resets, a reading that was started reaches the end of the script:
\* isPlaying is false and the end is announced.
C35_ReadingCompletes ==
  (\E e \in Runs : e.kind = "start") ~> Finished

\* the end of a script of more than one line was announced
C35_Witness ==
  /\ Finished
  /\ NumLines > 1
  /\ currentLineIndexRef = NumLines - 1

\* C36: once auto-reading has announced the end of the script, no line is
\* handed to speak until resetReading has run; a start in the finished
\* state replays nothing.
C36_FinishedStaysSilent ==
  \A e \in Runs : e.preFinished => e.spoke = NoLine

\* C37: a resume that follows a stop while the audio of the current line is
\* still in flight hands no line to speak, and when that audio ends with
\* reading resumed the timer for the next line is set.
C37_ResumeDuringAudio ==
  \A e \in Runs :
    /\ (/\ e.kind = "start" /\ e.preStopped
        /\ e.arg \in LineIdx /\ e.preIdx = e.arg
        /\ e.preSpeaking[e.arg] > 0) =>
          (e.spoke = NoLine /\ e.postPlaying /\ e.postIdx = e.arg)
    /\ (e.kind = "speakDone" /\ e.prePlaying) => e.timer = e.arg + 1

\* C38: the marker of a backend call in flight is removed only when that
\* call completes (or by clearCache): the completion of an older call for
\* the same key leaves the marker of a newer call in place.
C38_MarkerRemovedByOwner ==
  [][\A k \in Keys :
       (/\ pendingRequests[k] # NoCall
        /\ pendingRequests'[k] = NoCall
        /\ reqs[pendingRequests[k]].state = "inflight") =>
          \/ reqs'[pendingRequests[k]].state # "inflight"
          \/ \A c \in 1 .. Len(reqs') : reqs'[c].cleared]_vars

====
